---------------------------- MODULE Spec2Model ----------------------------
(***************************************************************************)
(* A model of the EMA-pullback engine of src/backend/main222.py: the       *)
(* criteria evaluator (evaluate_pullback_strategy, with the swing-point,   *)
(* structure and candlestick helpers it calls) and the bar-by-bar backtest *)
(* loop of backtest_pullback_strategy.                                     *)
(*                                                                         *)
(* Numbers.  The program computes in binary floating point; the model      *)
(* computes exactly, in integers.  A price, a capital or a pnl is a number *)
(* of mills (1/1000 of the currency unit), so that round(x, 2) is a real   *)
(* rounding: to a multiple of Cent mills.  Where the code multiplies a     *)
(* price by 0.95 or takes a percentage, the model scales both sides        *)
(* instead of dividing.  A DataFrame is a sequence of rows, a row a        *)
(* function from column names to values, its index kept in column "time".  *)
(***************************************************************************)
EXTENDS Integers, Sequences, FiniteSets, TLC

VARIABLES
    market,           \* what get_stock_data fetched: it determines data_daily and data_4h
    initial_capital,  \* the backtest's initial_capital parameter
    i,                \* the backtest loop's daily index (0-based, as in the code)
    pc,               \* where the run is
    capital,          \* the backtest's running capital
    position,         \* None, or the open position
    trades,           \* the trade ledger
    current_daily,    \* the index (timestamps) of the daily slice of the last iteration
    current_4h,       \* the index of the intraday slice of the last iteration
    analysis,         \* the last result of evaluate_pullback_strategy
    prev_analysis,    \* the result before it (evaluator runs only)
    response          \* what the backtest returned

vars == <<market, initial_capital, i, pc, capital, position, trades,
          current_daily, current_4h, analysis, prev_analysis, response>>

----------------------------------------------------------------------------
(* Units and arithmetic                                                    *)

\* round(x, 2): mills per hundredth of the currency unit
Cent == 10

\* the evaluator's stop arithmetic is carried in 1/Fine of a mill, so that
\* Close * 0.95 is exact
Fine == 100

\* float('nan'), as gain / loss gives it for 0 / 0; no column holds this number otherwise
NaN == -999999999

\* Python's None where an object (a position, a result) is expected
None == [none |-> TRUE]

\* no exception; no exit reason
NoException == "NoException"

NoExit == "NO_EXIT"

Max(a, b) == IF a >= b THEN a ELSE b

Min(a, b) == IF a <= b THEN a ELSE b

Abs(a) == IF a >= 0 THEN a ELSE -a

\* the nearest integer to n / d (d > 0), a tie going to the even one: round()
RoundDiv(n, d) ==
    LET f == n \div d
        r == n % d
    IN  IF 2 * r < d THEN f
        ELSE IF 2 * r > d THEN f + 1
        ELSE IF f % 2 = 0 THEN f ELSE f + 1

\* round(x, 2) of a value in mills: the nearest whole cent, in mills
Round2(x) == Cent * RoundDiv(x, Cent)

\* round(x, 2) of a value in 1/Fine mills, in mills
Round2Fine(x) == Cent * RoundDiv(x, Cent * Fine)

\* int(n / d), d # 0: Python's int() truncates toward zero
TruncDiv(n, d) ==
    IF (n >= 0) = (d > 0) THEN Abs(n) \div Abs(d) ELSE -(Abs(n) \div Abs(d))

Sign(x) == IF x > 0 THEN 1 ELSE IF x < 0 THEN -1 ELSE 0

\* a > b on floats: false when either side is NaN
Gt(a, b) == a # NaN /\ b # NaN /\ a > b

RECURSIVE SumSeq(_)
SumSeq(s) == IF s = <<>> THEN 0 ELSE Head(s) + SumSeq(Tail(s))

\* <<a, a+1, ..., b>>
Range(a, b) == [k \in 1..(IF b >= a THEN b - a + 1 ELSE 0) |-> a + k - 1]

----------------------------------------------------------------------------
(* DataFrame access                                                        *)

\* df.tail(n)
tail(df, n) == SubSeq(df, Max(1, Len(df) - n + 1), Len(df))

\* df.iloc[k] for a 0-based k >= 0
iloc(df, k) == df[k + 1]

\* df.iloc[-k], k >= 1
ilocEnd(df, k) == df[Len(df) - k + 1]

\* whether reading column c of a row of df succeeds (KeyError otherwise)
HasCol(df, c) == df # <<>> /\ c \in DOMAIN df[1]

HasCols(df, cs) == \A c \in cs : HasCol(df, c)

\* max / min of a column over 1-based rows a..b
ColMax(df, c, a, b) == CHOOSE m \in {df[k][c] : k \in a..b} : \A k \in a..b : df[k][c] <= m

ColMin(df, c, a, b) == CHOOSE m \in {df[k][c] : k \in a..b} : \A k \in a..b : df[k][c] >= m

----------------------------------------------------------------------------
(* detect_swing_points, check_higher_highs_lows, detect_bullish_patterns   *)

\* the default of detect_swing_points' window parameter
SwingWindow == 5

\* iloc[i-window:i+window]: a window that stops one bar short (a faulty variant)
DetectNarrow(data, window) ==
    LET n == Len(data)
        cand == Range(window, n - window - 1)
        isHigh(k) == iloc(data, k)["High"] = ColMax(data, "High", k - window + 1, k + window)
        isLow(k) == iloc(data, k)["Low"] = ColMin(data, "Low", k - window + 1, k + window)
        hs == SelectSeq(cand, isHigh)
        ls == SelectSeq(cand, isLow)
    IN  [highs |-> [j \in 1..Len(hs) |->
                      [index |-> hs[j], price |-> iloc(data, hs[j])["High"],
                       time |-> iloc(data, hs[j])["time"]]],
         lows  |-> [j \in 1..Len(ls) |->
                      [index |-> ls[j], price |-> iloc(data, ls[j])["Low"],
                       time |-> iloc(data, ls[j])["time"]]]]

\* a detector that finds no swing point (a faulty variant)
DetectNoSwings(data, window) == [highs |-> <<>>, lows |-> <<>>]

detect_swing_points(data, window) ==
    LET n == Len(data)
        cand == Range(window, n - window - 1)      \* range(window, len(data) - window)
        isHigh(k) == iloc(data, k)["High"] = ColMax(data, "High", k - window + 1, k + window + 1)
        isLow(k) == iloc(data, k)["Low"] = ColMin(data, "Low", k - window + 1, k + window + 1)
        hs == SelectSeq(cand, isHigh)
        ls == SelectSeq(cand, isLow)
    IN  [highs |-> [j \in 1..Len(hs) |->
                      [index |-> hs[j], price |-> iloc(data, hs[j])["High"],
                       time |-> iloc(data, hs[j])["time"]]],
         lows  |-> [j \in 1..Len(ls) |->
                      [index |-> ls[j], price |-> iloc(data, ls[j])["Low"],
                       time |-> iloc(data, ls[j])["time"]]]]

\* sorted(points, key=lambda x: x['time']): a stable insertion sort
RECURSIVE InsertByTime(_, _)
InsertByTime(p, s) ==
    IF s = <<>> THEN <<p>>
    ELSE IF s[Len(s)]["time"] <= p["time"] THEN Append(s, p)
    ELSE Append(InsertByTime(p, SubSeq(s, 1, Len(s) - 1)), s[Len(s)])

RECURSIVE SortedByTime(_)
SortedByTime(s) ==
    IF s = <<>> THEN <<>>
    ELSE InsertByTime(s[Len(s)], SortedByTime(SubSeq(s, 1, Len(s) - 1)))

check_higher_highs_lows(swing_points) ==
    LET highs == swing_points.highs
        lows == swing_points.lows
    IN  IF Len(highs) < 2 \/ Len(lows) < 2 THEN FALSE
        ELSE LET recent_highs == tail(SortedByTime(highs), 2)
                 recent_lows == tail(SortedByTime(lows), 2)
             IN  /\ recent_highs[2].price > recent_highs[1].price
                 /\ recent_lows[2].price > recent_lows[1].price

\* the engulfing rule tried before the hammer rule (a faulty variant)
DetectEngulfingFirst(data) ==
    IF Len(data) < 3 THEN [pattern |-> "NONE", confidence |-> 0]
    ELSE
    LET current == ilocEnd(data, 1)
        prev1 == ilocEnd(data, 2)
        prev2 == ilocEnd(data, 3)
        body == Abs(current["Close"] - current["Open"])
        upper_shadow == current["High"] - Max(current["Open"], current["Close"])
        lower_shadow == Min(current["Open"], current["Close"]) - current["Low"]
    IN  IF /\ prev1["Close"] < prev1["Open"]
           /\ current["Close"] > current["Open"]
           /\ current["Open"] < prev1["Close"]
           /\ current["Close"] > prev1["Open"]
            THEN [pattern |-> "BULLISH_ENGULFING", confidence |-> 85]
        ELSE IF lower_shadow > 2 * body /\ upper_shadow < body
            THEN [pattern |-> "HAMMER", confidence |-> 75]
        ELSE IF /\ prev2["Close"] < prev2["Open"]
                /\ 10 * Abs(prev1["Close"] - prev1["Open"]) < 3 * body
                /\ current["Close"] > current["Open"]
                /\ 2 * current["Close"] > prev2["Open"] + prev2["Close"]
            THEN [pattern |-> "MORNING_STAR", confidence |-> 90]
        ELSE IF current["Close"] > current["Open"]
            THEN [pattern |-> "BULLISH_CANDLE", confidence |-> 60]
        ELSE [pattern |-> "NONE", confidence |-> 0]

detect_bullish_patterns(data) ==
    IF Len(data) < 3 THEN [pattern |-> "NONE", confidence |-> 0]
    ELSE
    LET current == ilocEnd(data, 1)
        prev1 == ilocEnd(data, 2)
        prev2 == ilocEnd(data, 3)
        body == Abs(current["Close"] - current["Open"])
        upper_shadow == current["High"] - Max(current["Open"], current["Close"])
        lower_shadow == Min(current["Open"], current["Close"]) - current["Low"]
    IN  IF lower_shadow > 2 * body /\ upper_shadow < body
            THEN [pattern |-> "HAMMER", confidence |-> 75]
        ELSE IF /\ prev1["Close"] < prev1["Open"]
                /\ current["Close"] > current["Open"]
                /\ current["Open"] < prev1["Close"]
                /\ current["Close"] > prev1["Open"]
            THEN [pattern |-> "BULLISH_ENGULFING", confidence |-> 85]
        ELSE IF /\ prev2["Close"] < prev2["Open"]
                /\ 10 * Abs(prev1["Close"] - prev1["Open"]) < 3 * body
                /\ current["Close"] > current["Open"]
                /\ 2 * current["Close"] > prev2["Open"] + prev2["Close"]
            THEN [pattern |-> "MORNING_STAR", confidence |-> 90]
        ELSE IF current["Close"] > current["Open"]
            THEN [pattern |-> "BULLISH_CANDLE", confidence |-> 60]
        ELSE [pattern |-> "NONE", confidence |-> 0]

----------------------------------------------------------------------------
(* evaluate_pullback_strategy                                              *)

\* the tail of the daily frame the swing points are taken from
SwingTail == 50

\* the RSI column counts 1/RsiUnit of an RSI point
RsiUnit == 100

\* the columns evaluate_pullback_strategy reads of the daily frame: High and Low
\* only when detect_swing_points' loop runs at all
DailyColsRead(daily) ==
    {"EMA50", "EMA200", "Near_EMA50", "Close", "ATR", "EMA50_Distance"}
        \cup (IF Len(tail(daily, SwingTail)) > 2 * SwingWindow THEN {"High", "Low"} ELSE {})

\* the columns it reads of the intraday frame: the candle's only when
\* detect_bullish_patterns gets its 3 bars
H4ColsRead(h4) ==
    {"RSI", "MACD", "MACD_Signal", "Volume_Spike", "Volume", "Volume_MA"}
        \cup (IF Len(tail(h4, 3)) >= 3 THEN {"Open", "High", "Low", "Close"} ELSE {})

\* the exception the body of the try block raises on these frames, if any
EvaluateRaises(daily, h4) ==
    IF Len(daily) = 0 \/ Len(h4) = 0 THEN "IndexError"          \* .iloc[-1] of an empty frame
    ELSE IF ~HasCols(daily, DailyColsRead(daily)) \/ ~HasCols(h4, H4ColsRead(h4))
        THEN "KeyError"
    ELSE IF ilocEnd(h4, 1)["Volume"] = NaN \/ ilocEnd(h4, 1)["Volume_MA"] = NaN
        THEN "ValueError"                                        \* int(nan)
    ELSE NoException

\* the classification with its last threshold one lower (a faulty variant)
ClassifyLoose(criteria_met) ==
    IF criteria_met >= 5 THEN [signal |-> "STRONG_BUY", confidence |-> 90]
    ELSE IF criteria_met >= 4 THEN [signal |-> "BUY", confidence |-> 75]
    ELSE IF criteria_met >= 2 THEN [signal |-> "WEAK_BUY", confidence |-> 60]
    ELSE [signal |-> "HOLD", confidence |-> 40]

\* if criteria_met >= 5 ... elif >= 4 ... elif >= 3 ... else
Classify(criteria_met) ==
    IF criteria_met >= 5 THEN [signal |-> "STRONG_BUY", confidence |-> 90]
    ELSE IF criteria_met >= 4 THEN [signal |-> "BUY", confidence |-> 75]
    ELSE IF criteria_met >= 3 THEN [signal |-> "WEAK_BUY", confidence |-> 60]
    ELSE [signal |-> "HOLD", confidence |-> 40]

\* sum([criterion_1, ..., criterion_6])
CountTrue(flags) == Cardinality({k \in DOMAIN flags : flags[k]})

\* the except branch: the error result
ErrorResult(e) == [signal |-> "ERROR", confidence |-> 0, error |-> e]

\* the try branch, on frames on which nothing raises.  Stop, risk and targets are
\* in 1/Fine mills until they are rounded into the trade setup.
EvaluateBody(daily, h4) ==
    LET daily_latest == ilocEnd(daily, 1)
        h4_latest == ilocEnd(h4, 1)
        close == daily_latest["Close"]
        \* criterion 1
        daily_trend_up == Gt(daily_latest["EMA50"], daily_latest["EMA200"])
        swing_points == detect_swing_points(tail(daily, SwingTail), SwingWindow)
        hh_hl_structure == check_higher_highs_lows(swing_points)
        criterion_1 == daily_trend_up /\ hh_hl_structure
        \* criterion 2
        near_ema50 == daily_latest["Near_EMA50"]
        pullback_complete == 100 * close >= 98 * daily_latest["EMA50"]
        criterion_2 == near_ema50 /\ pullback_complete
        \* criterion 3
        bullish_pattern == detect_bullish_patterns(tail(h4, 3))
        rsi_bullish == Gt(h4_latest["RSI"], 50 * RsiUnit)
        macd_bullish == Gt(h4_latest["MACD"], h4_latest["MACD_Signal"])
        criterion_3 == bullish_pattern.confidence > 60 /\ rsi_bullish /\ macd_bullish
        \* criterion 4
        criterion_4 == h4_latest["Volume_Spike"]
        \* criterion 5
        recent_swing_lows == tail(swing_points.lows, 3)
        swing_low_stop ==
            IF recent_swing_lows # <<>>
            THEN Fine * (CHOOSE m \in {recent_swing_lows[k].price : k \in DOMAIN recent_swing_lows} :
                            \A k \in DOMAIN recent_swing_lows : recent_swing_lows[k].price >= m)
            ELSE 95 * close                                     \* Close * 0.95, Fine = 100
        atr_stop == Fine * (close - daily_latest["ATR"])
        stop_loss == Max(swing_low_stop, atr_stop)
        risk_per_share == Fine * close - stop_loss
        criterion_5 == risk_per_share > 0
        \* criterion 6: risk_per_share / Close * 100 > 0.5, 0 when Close <= 0
        target_2r == Fine * close + risk_per_share * 2
        target_3r == Fine * close + risk_per_share * 3
        criterion_6 == close > 0 /\ 200 * risk_per_share > Fine * close
        criteria == <<criterion_1, criterion_2, criterion_3, criterion_4, criterion_5, criterion_6>>
        criteria_met == CountTrue(criteria)
        cls == Classify(criteria_met)
    IN  [signal |-> cls.signal,
         confidence |-> cls.confidence,
         signal_strength |-> RoundDiv(criteria_met * 1000, 6),  \* round(met / 6 * 100, 1), in tenths
         criteria_met |-> criteria_met,
         criteria |-> criteria,
         pattern |-> bullish_pattern.pattern,
         trade_setup |->
            [entry_price |-> Round2(close),
             stop_loss |-> Round2Fine(stop_loss),
             target_1 |-> Round2Fine(target_2r),
             target_2 |-> Round2Fine(target_3r),
             risk_amount |-> Round2Fine(risk_per_share),
             reward_1 |-> Round2Fine(risk_per_share * 2),
             reward_2 |-> Round2Fine(risk_per_share * 3)]]

\* the body alone, its exception leaving the function (what the evaluator would
\* be without its except branch)
EvaluateNoCatch(daily, h4) ==
    LET e == EvaluateRaises(daily, h4)
    IN  IF e # NoException THEN [raised |-> e] ELSE EvaluateBody(daily, h4)

\* try: ... except Exception as e: return the ERROR result
evaluate_pullback_strategy(daily, h4) ==
    LET e == EvaluateRaises(daily, h4)
    IN  IF e # NoException THEN ErrorResult(e) ELSE EvaluateBody(daily, h4)

----------------------------------------------------------------------------
(* The frames.  get_stock_data and calculate_enhanced_indicators hand the  *)
(* engine its frames; their columns are inputs here.  A market is a        *)
(* profile (the shape of the highs and lows and the price level) and a     *)
(* plan: for each daily bar the backtest visits, the kind of bar it is.    *)

\* for i in range(50, len(data_daily) - 10, 5)
WarmUp == 50

TailSkip == 10

Stride == 5

\* if len(current_4h) < 10: continue
MinIntraday == 10

\* trades[-10:]
ReportLimit == 10

\* the markets of every plan of the kinds below visit at most this many daily bars
MaxSteps == 4

\* the markets that vary the capital or the intraday start visit at most this many
ShortSteps == 2

\* the scripted markets close at most this many trades (MaxTrades > ReportLimit)
MaxTrades == 11

\* time units per day: a daily bar is stamped at the start of its day
TicksPerDay == 4

\* intraday bars per day (BarsPerDay < TicksPerDay)
BarsPerDay == 2

\* the length of the sawtooth the trending profiles' highs and lows follow
SwingPeriod == 11

\* strftime('%Y-%m') of a timestamp: the day dropped too (a faulty variant)
DateStrMonth(t) == t \div (TicksPerDay * 30)

\* strftime('%Y-%m-%d') of a timestamp: its day, the time of day dropped
DateStr(t) == t \div TicksPerDay

RawCols == {"time", "Open", "High", "Low", "Close", "Volume"}

Row(t, o, h, l, c, vol, ema50, ema200, rsi, macd, sig, vma, spike, atr, dist, near) ==
    [time |-> t, Open |-> o, High |-> h, Low |-> l, Close |-> c, Volume |-> vol,
     EMA50 |-> ema50, EMA200 |-> ema200, RSI |-> rsi, MACD |-> macd, MACD_Signal |-> sig,
     MACD_Histogram |-> macd - sig, Volume_MA |-> vma, Volume_Spike |-> spike,
     ATR |-> atr, EMA50_Distance |-> dist, Near_EMA50 |-> near]

\* a frame whose indicators are absent: what calculate_enhanced_indicators
\* returns when its first assignment fails
RawOnly(df) == [k \in DOMAIN df |-> [c \in RawCols |-> df[k][c]]]

\*  hi0, lo0: the level of the highs and lows; rise: per sawtooth; bump: the
\*  peak's and the trough's excess; slope: per bar; mid: the close of a bar
\*  that is not visited; u: the size of an intraday candle
Profiles ==
    [trend |-> [hi0 |-> 101000, lo0 |-> 96000, rise |-> 200, bump |-> 500, slope |-> 0,
                mid |-> 99000, u |-> 100],
     range |-> [hi0 |-> 101000, lo0 |-> 97000, rise |-> 0, bump |-> 0, slope |-> 0,
                mid |-> 99000, u |-> 100],
     ramp  |-> [hi0 |-> 101000, lo0 |-> 96000, rise |-> 0, bump |-> 0, slope |-> 10,
                mid |-> 99000, u |-> 100],
     tight |-> [hi0 |-> 100010, lo0 |-> 99994, rise |-> 1, bump |-> 3, slope |-> 0,
                mid |-> 100000, u |-> 2],
     penny |-> [hi0 |-> 4, lo0 |-> 2, rise |-> 0, bump |-> 0, slope |-> 0,
                mid |-> 3, u |-> 1]]

ShapeHigh(pr, k) ==
    pr.hi0 + pr.rise * (k \div SwingPeriod) + pr.slope * k
        + (IF k % SwingPeriod = SwingPeriod \div 2 THEN pr.bump ELSE 0)

ShapeLow(pr, k) ==
    pr.lo0 + pr.rise * (k \div SwingPeriod) + pr.slope * k
        - (IF k % SwingPeriod = 0 THEN pr.bump ELSE 0)

\* a visited daily bar: its close and ATR, whether EMA50 > EMA200, whether the
\* close is near EMA50, and the intraday context that precedes it:
\* "bull" (engulfing candle, RSI 60, MACD above its signal, volume spike),
\* "pattern" (the same without the spike), "spike" (the spike alone), "none",
\* "gap" (bars whose volume is missing)
Kind(c, a, up, near, ctx) == [close |-> c, atr |-> a, up |-> up, near |-> near, ctx |-> ctx]

\* the 0-based daily index of the plan's j-th visited bar
VisitedIndex(j) == WarmUp + Stride * (j - 1)

\* the plan entry a daily index is the visited bar of, 0 if none
StepOf(plan, k) ==
    IF k >= WarmUp /\ (k - WarmUp) % Stride = 0 /\ (k - WarmUp) \div Stride + 1 <= Len(plan)
    THEN (k - WarmUp) \div Stride + 1 ELSE 0

DailyBar(pr, plan, k) ==
    LET j == StepOf(plan, k)
        c == IF j > 0 THEN plan[j].close ELSE pr.mid + pr.rise * (k \div SwingPeriod) + pr.slope * k
        near == IF j > 0 THEN plan[j].near ELSE TRUE
        ema50 == IF near THEN c ELSE c + c \div 20
        up == IF j > 0 THEN plan[j].up ELSE FALSE
        atr == IF j > 0 THEN plan[j].atr ELSE pr.hi0 - pr.lo0
    IN  Row(k * TicksPerDay, c, Max(ShapeHigh(pr, k), c), Min(ShapeLow(pr, k), c), c, 1000,
            ema50, IF up THEN ema50 - 1 ELSE ema50 + 1, 50 * RsiUnit, 0, 0, 1000, FALSE,
            atr, IF near THEN 0 ELSE 500, near)

MkDaily(pr, plan, len) == [n \in 1..len |-> DailyBar(pr, plan, n - 1)]

\* the context of the intraday bars of day d: that of the next visited daily bar
CtxOfDay(plan, d) ==
    LET j == IF d < WarmUp THEN 1 ELSE (d - WarmUp) \div Stride + 2
    IN  IF j <= Len(plan) THEN plan[j].ctx ELSE "none"

\* the slot-th intraday bar of day d: the first of a day is a red candle, the
\* last one engulfs it when the context has the pattern
H4Bar(pr, plan, d, slot) ==
    LET ctx == CtxOfDay(plan, d)
        p == pr.mid
        green == slot = BarsPerDay /\ ctx \in {"bull", "pattern"}
        o == IF green THEN p - 2 * pr.u ELSE p
        c == IF green THEN p + pr.u ELSE p - pr.u
        conf == ctx \in {"bull", "pattern"}
        spike == ctx \in {"bull", "spike"}
        vol == IF ctx = "gap" THEN NaN ELSE IF spike THEN 2000 ELSE 1000
    IN  Row(d * TicksPerDay + slot, o, Max(o, c), Min(o, c), c, vol,
            p, p, IF conf THEN 60 * RsiUnit ELSE 45 * RsiUnit, IF conf THEN 5 ELSE 1, 2,
            IF ctx = "gap" THEN NaN ELSE 1000, spike, pr.u, 0, TRUE)

\* the intraday frame of days start .. len - 1
MkH4(pr, plan, len, start) ==
    [n \in 1..(IF len > start THEN BarsPerDay * (len - start) ELSE 0) |->
        H4Bar(pr, plan, start + (n - 1) \div BarsPerDay, ((n - 1) % BarsPerDay) + 1)]

----------------------------------------------------------------------------
(* The markets a backtest of the model is run on                           *)

\* 10000.0, the default of initial_capital, and a small account, in mills
DefaultCapital == 10000000

SmallCapital == 2000

\* the first day of the intraday frame: with EarlyStart the first visited bar
\* has MinIntraday intraday bars before it, with LateStart it has not
EarlyStart == 44

LateStart == 47

TrendSetup == Kind(100000, 2000, TRUE, TRUE, "bull")   \* entry 100, stop 98, target 104

TrendTarget == Kind(104000, 2000, TRUE, FALSE, "none")  \* the target's price

TrendStop == Kind(98000, 2000, TRUE, FALSE, "none")     \* the stop's price

TrendKinds == {TrendSetup, TrendTarget, TrendStop}

TightSetup == Kind(99996, 16, TRUE, TRUE, "bull")       \* a risk of a fraction of a cent

TightKinds ==
    {TightSetup,
     Kind(100001, 16, TRUE, TRUE, "none"),        \* a tenth of a cent above the entry
     Kind(99400, 16, TRUE, TRUE, "none"),         \* a drop through the stop
     Kind(99300, 16, TRUE, TRUE, "bull")}         \* a setup below the swing lows

\* two round trips of a small account, each won by a fraction of a cent a share
TightScript ==
    <<TightSetup,
      Kind(100001, 16, TRUE, TRUE, "none"),       \* a tenth of a cent above the entry
      Kind(100006, 16, TRUE, TRUE, "bull"),       \* a setup: entry 100.01, target 100.03
      Kind(100031, 16, TRUE, TRUE, "none")>>      \* a tenth of a cent above the target

PennyKinds ==
    {Kind(3, 2, TRUE, TRUE, "bull"),              \* a setup at a price below half a cent
     Kind(3, 2, TRUE, TRUE, "none")}

Plans(kinds, n) == UNION {[1..m -> kinds] : m \in 1..n}

\* a plan of n round trips: a setup, then the target's price, or the stop's
\* at every s-th round trip
ScriptPlan(n, s) ==
    [k \in 1..(2 * n) |->
        IF k % 2 = 1 THEN TrendSetup
        ELSE IF (k \div 2) % s = 0 THEN TrendStop ELSE TrendTarget]

\* the daily frame has the bars the plan visits and TailSkip + 1 bars after the last
DailyLen(plan) == VisitedIndex(Len(plan)) + TailSkip + 1

\* a market: the daily frame has len bars, the intraday frame the bars of days
\* start .. hdays - 1; raw: the frames came back from calculate_enhanced_indicators
\* without indicators; cap: the initial capital of a backtest on it
Market(pr, plan, len, start, hdays, cap, raw) ==
    [pr |-> pr, plan |-> plan, len |-> len, start |-> start, hdays |-> hdays,
     cap |-> cap, raw |-> raw]

BacktestMarket(pr, plan, start, cap, raw) ==
    Market(pr, plan, DailyLen(plan), start, DailyLen(plan), cap, raw)

Markets ==
    {BacktestMarket("trend", p, EarlyStart, DefaultCapital, FALSE) : p \in Plans(TrendKinds, MaxSteps)}
    \cup {BacktestMarket("trend", p, s, c, r) :
            p \in Plans(TrendKinds, ShortSteps), s \in {EarlyStart, LateStart},
            c \in {DefaultCapital, SmallCapital}, r \in BOOLEAN}
    \cup {BacktestMarket("tight", p, EarlyStart, DefaultCapital, FALSE) :
            p \in {q \in Plans(TightKinds, MaxSteps) : q[1] = TightSetup}}
    \cup {BacktestMarket("tight", p, EarlyStart, SmallCapital, FALSE) :
            p \in Plans(TightKinds, ShortSteps) \cup {TightScript}}
    \cup {BacktestMarket("penny", p, EarlyStart, DefaultCapital, FALSE) :
            p \in Plans(PennyKinds, ShortSteps)}
    \cup {BacktestMarket("trend", ScriptPlan(n, s), EarlyStart, DefaultCapital, FALSE) :
            n \in (ReportLimit - 1)..MaxTrades, s \in 1..3}

DailyOf(m) ==
    LET df == MkDaily(Profiles[m.pr], m.plan, m.len)
    IN  IF m.raw THEN RawOnly(df) ELSE df

H4Of(m) ==
    LET df == MkH4(Profiles[m.pr], m.plan, m.hdays, m.start)
    IN  IF m.raw THEN RawOnly(df) ELSE df

\* data_daily = calculate_enhanced_indicators(get_stock_data(symbol, period, "1d"))
data_daily == DailyOf(market)

\* data_4h = calculate_enhanced_indicators(get_stock_data(symbol, period, "4h"))
data_4h == H4Of(market)

\* df.index
IndexOf(df) == [k \in DOMAIN df |-> df[k]["time"]]


----------------------------------------------------------------------------
(* backtest_pullback_strategy: the loop                                    *)

\* the loop has an index to run: i in range(WarmUp, len(data_daily) - TailSkip, Stride)
InLoop == pc = "loop" /\ i < Len(data_daily) - TailSkip

\* data_daily.iloc[:i+2]: a slice that looks one bar ahead (a faulty variant)
CurDailyAhead == SubSeq(data_daily, 1, i + 2)

\* data_daily.iloc[:i+1]
CurDaily == SubSeq(data_daily, 1, i + 1)

\* data_4h[data_4h.index <= data_daily.index[i]]
Cur4h ==
    LET now == iloc(data_daily, i)["time"]
    IN  SelectSeq(data_4h, LAMBDA r : r["time"] <= now)

\* analysis = evaluate_pullback_strategy(symbol, current_daily, current_4h)
Now == evaluate_pullback_strategy(CurDaily, Cur4h)

\* an exception left evaluate_pullback_strategy instead of a result
IsRaise(r) == "raised" \in DOMAIN r

\* the entry condition without "position is None" (a faulty variant)
EntrySignalAnyTime == analysis'.signal \in {"BUY", "STRONG_BUY"}

\* position is None and analysis.get('signal') in ['BUY', 'STRONG_BUY']
EntrySignal == position = None /\ analysis'.signal \in {"BUY", "STRONG_BUY"}

\* capital * 0.02 / (entry_price - stop_loss) divides by zero: the quotient is
\* infinite or NaN (numpy scalars) and int() raises, or the division itself
\* raises (Python floats)
SizeRaises == analysis'.trade_setup.entry_price = analysis'.trade_setup.stop_loss

\* the sizing on the initial capital (a faulty variant)
SharesOfInitial ==
    TruncDiv(2 * initial_capital,
             100 * (analysis'.trade_setup.entry_price - analysis'.trade_setup.stop_loss))

\* int(capital * 0.02 / (entry_price - stop_loss))
Shares ==
    TruncDiv(2 * capital, 100 * (analysis'.trade_setup.entry_price - analysis'.trade_setup.stop_loss))

\* the loop body raises: the evaluator did, or the sizing does
LoopBodyRaises == IsRaise(analysis') \/ (EntrySignal /\ SizeRaises)

\* data_daily.iloc[i]['Close']
CurrentPrice == iloc(data_daily, i)["Close"]

\* the date string of daily bar i
Today == DateStr(iloc(data_daily, i)["time"])

\* the two exit tests in the other order (a faulty variant)
ExitReasonTargetFirst(current_price, pos) ==
    IF current_price >= pos.target THEN "TARGET_HIT"
    ELSE IF current_price <= pos.stop_loss THEN "STOP_LOSS"
    ELSE NoExit

\* a target test that is met as soon as the entry price is (a faulty variant)
ExitReasonEager(current_price, pos) ==
    IF current_price <= pos.stop_loss THEN "STOP_LOSS"
    ELSE IF current_price >= pos.entry_price THEN "TARGET_HIT"
    ELSE NoExit

\* if current_price <= stop_loss ... elif current_price >= target
ExitReason(current_price, pos) ==
    IF current_price <= pos.stop_loss THEN "STOP_LOSS"
    ELSE IF current_price >= pos.target THEN "TARGET_HIT"
    ELSE NoExit

\* the size of the move instead of the move (a faulty variant)
PnlUnsigned(current_price, pos) == Abs(current_price - pos.entry_price) * pos.shares

\* pnl = (current_price - position['entry_price']) * position['shares']
Pnl(current_price, pos) == (current_price - pos.entry_price) * pos.shares

\* the record trades.append() adds; return_pct counts hundredths of a percent
TradeRecord(current_price, pos, date, reason) ==
    [entry_date |-> pos.entry_date,
     exit_date |-> date,
     entry_price |-> pos.entry_price,
     exit_price |-> current_price,
     shares |-> pos.shares,
     pnl |-> Round2(Pnl(current_price, pos)),
     return_pct |-> RoundDiv(10000 * (current_price - pos.entry_price), pos.entry_price),
     exit_reason |-> reason]

\* what every iteration that reaches the evaluator does, whatever its branch
Iterate ==
    /\ InLoop
    /\ current_4h' = IndexOf(Cur4h)
    /\ Len(current_4h') >= MinIntraday
    /\ current_daily' = IndexOf(CurDaily)
    /\ analysis' = Now
    /\ UNCHANGED <<market, initial_capital, prev_analysis>>

\* if len(current_4h) < 10: continue
Skip ==
    /\ InLoop
    /\ current_4h' = IndexOf(Cur4h)
    /\ Len(current_4h') < MinIntraday
    /\ current_daily' = IndexOf(CurDaily)
    /\ i' = i + Stride
    /\ UNCHANGED <<market, initial_capital, pc, capital, position, trades,
                   analysis, prev_analysis, response>>

\* an entry that takes the price of the shares out of the capital (a faulty variant)
EnterPaying ==
    /\ Iterate
    /\ ~IsRaise(analysis') /\ EntrySignal /\ ~SizeRaises
    /\ Shares > 0
    /\ position' = [entry_price |-> analysis'.trade_setup.entry_price,
                    stop_loss |-> analysis'.trade_setup.stop_loss,
                    target |-> analysis'.trade_setup.target_1,
                    shares |-> Shares,
                    entry_date |-> Today]
    /\ capital' = capital - Shares * analysis'.trade_setup.entry_price
    /\ i' = i + Stride
    /\ UNCHANGED <<pc, trades, response>>

\* the entry branch with shares > 0
Enter ==
    /\ Iterate
    /\ ~IsRaise(analysis') /\ EntrySignal /\ ~SizeRaises
    /\ Shares > 0
    /\ position' = [entry_price |-> analysis'.trade_setup.entry_price,
                    stop_loss |-> analysis'.trade_setup.stop_loss,
                    target |-> analysis'.trade_setup.target_1,
                    shares |-> Shares,
                    entry_date |-> Today]
    /\ i' = i + Stride
    /\ UNCHANGED <<pc, capital, trades, response>>

\* the entry branch with shares <= 0
Decline ==
    /\ Iterate
    /\ ~IsRaise(analysis') /\ EntrySignal /\ ~SizeRaises
    /\ Shares <= 0
    /\ i' = i + Stride
    /\ UNCHANGED <<pc, capital, position, trades, response>>

\* an exception in the loop body: except ... raise HTTPException(status_code=500)
Abort ==
    /\ Iterate
    /\ LoopBodyRaises
    /\ pc' = "error"
    /\ response' = [status_code |-> 500, detail |-> "Backtest error"]
    /\ UNCHANGED <<i, capital, position, trades>>

\* no position and no entry signal: neither branch
Idle ==
    /\ Iterate
    /\ ~IsRaise(analysis') /\ ~EntrySignal /\ position = None
    /\ i' = i + Stride
    /\ UNCHANGED <<pc, capital, position, trades, response>>

\* elif position is not None: ... the stop or the target is hit
Exit ==
    /\ Iterate
    /\ ~IsRaise(analysis') /\ ~EntrySignal /\ position # None
    /\ ExitReason(CurrentPrice, position) # NoExit
    /\ capital' = capital + Pnl(CurrentPrice, position)
    /\ trades' = Append(trades, TradeRecord(CurrentPrice, position, Today,
                                            ExitReason(CurrentPrice, position)))
    /\ position' = None
    /\ i' = i + Stride
    /\ UNCHANGED <<pc, response>>

\* elif position is not None: ... neither is hit
Hold ==
    /\ Iterate
    /\ ~IsRaise(analysis') /\ ~EntrySignal /\ position # None
    /\ ExitReason(CurrentPrice, position) = NoExit
    /\ i' = i + Stride
    /\ UNCHANGED <<pc, capital, position, trades, response>>

----------------------------------------------------------------------------
(* backtest_pullback_strategy: the metrics and the response                *)

RECURSIVE GCD(_, _)
GCD(a, b) == IF b = 0 THEN a ELSE GCD(b, a % b)

PnlsOf(trs) == [k \in DOMAIN trs |-> trs[k].pnl]

\* [t for t in trades if t['pnl'] > 0]
WinTrades(trs) == SelectSeq(trs, LAMBDA t : t.pnl > 0)

\* [t for t in trades if t['pnl'] <= 0]
LoseTrades(trs) == SelectSeq(trs, LAMBDA t : t.pnl <= 0)

\* round(np.mean([t['pnl'] for t in ts]), 2) if ts else 0
AvgPnl(ts) == IF ts # <<>> THEN Cent * RoundDiv(SumSeq(PnlsOf(ts)), Cent * Len(ts)) ELSE 0

\* round(total_pnl / initial_capital * 100, 2), in hundredths of a percent
\* (initial > 0; the fraction is reduced first to keep the product small)
ReturnPct(total_pnl, initial) ==
    LET g == GCD(10000, initial)
    IN  RoundDiv(total_pnl * (10000 \div g), initial \div g)

Metrics(trs, cap, initial) ==
    IF trs # <<>>
    THEN LET total_pnl == SumSeq(PnlsOf(trs))
         IN  [total_trades |-> Len(trs),
              winning_trades |-> Len(WinTrades(trs)),
              losing_trades |-> Len(LoseTrades(trs)),
              win_rate |-> RoundDiv(Len(WinTrades(trs)) * 10000, Len(trs)),
              total_return |-> Round2(total_pnl),
              total_return_pct |-> ReturnPct(total_pnl, initial),
              avg_win |-> AvgPnl(WinTrades(trs)),
              avg_loss |-> AvgPnl(LoseTrades(trs)),
              final_capital |-> Round2(cap)]
    ELSE [total_trades |-> 0, message |-> "No trades generated in backtest period"]

\* trades[:10]: the first records instead of the last (a faulty variant)
FirstTrades(trs) == SubSeq(trs, 1, Min(Len(trs), ReportLimit))

\* trades[-10:]
ReportedTrades(trs) == tail(trs, ReportLimit)

\* the loop is over: the metrics and the response
Finish ==
    /\ pc = "loop"
    /\ ~(i < Len(data_daily) - TailSkip)
    /\ response' = [initial_capital |-> initial_capital,
                    metrics |-> Metrics(trades, capital, initial_capital),
                    trades |-> ReportedTrades(trades),
                    success |-> TRUE]
    /\ pc' = "done"
    /\ UNCHANGED <<market, initial_capital, i, capital, position, trades,
                   current_daily, current_4h, analysis, prev_analysis>>

\* the state at the head of the loop: trades = [], capital = initial_capital, position = None
Init ==
    \E m \in Markets :
        /\ market = m
        /\ initial_capital = m.cap
        /\ i = WarmUp
        /\ pc = "loop"
        /\ capital = m.cap
        /\ position = None
        /\ trades = <<>>
        /\ current_daily = <<>>
        /\ current_4h = <<>>
        /\ analysis = None
        /\ prev_analysis = None
        /\ response = None

Next == Skip \/ Enter \/ Decline \/ Abort \/ Idle \/ Exit \/ Hold \/ Finish

Spec == Init /\ [][Next]_vars

----------------------------------------------------------------------------
(* scan_pullback_opportunities: the evaluator called on one symbol's       *)
(* frames after another                                                    *)

\* the ATR of a feed's last daily bar: none, a tenth of a percent, two percent
EvalKinds ==
    {Kind(100000, a, up, near, ctx) :
        a \in {0, 100, 2000}, up \in BOOLEAN, near \in BOOLEAN,
        ctx \in {"bull", "pattern", "spike", "none"}}

\* the frames a symbol comes with: the last daily bar is of the given kind
EvalFeed(kind, len, start, hdays, raw) ==
    Market("trend", <<kind>>, len, start, hdays, DefaultCapital, raw)

\* a full feed on a profile
EvalFeedOn(pr, kind) ==
    Market(pr, <<kind>>, WarmUp + 1, EarlyStart, WarmUp, DefaultCapital, FALSE)

EvalFeeds ==
    {EvalFeed(k, WarmUp + 1, EarlyStart, WarmUp, FALSE) : k \in EvalKinds}
    \cup {EvalFeed(TrendSetup, 0, EarlyStart, WarmUp, FALSE),                 \* no daily bar
          EvalFeed(TrendSetup, WarmUp + 1, EarlyStart, EarlyStart, FALSE),    \* no intraday bar
          EvalFeed(TrendSetup, WarmUp + 1, EarlyStart, WarmUp, TRUE),         \* no indicators
          EvalFeed(Kind(100000, 2000, TRUE, TRUE, "gap"), WarmUp + 1, EarlyStart, WarmUp, FALSE),
          EvalFeed(TrendSetup, SwingWindow, 0, 1, FALSE)}                     \* a few bars only
    \cup {EvalFeedOn("tight", TightSetup),                       \* the stop is a swing low
          EvalFeedOn("ramp", TrendSetup),                        \* no swing low: 0.95 * close
          EvalFeedOn("penny", Kind(3, 2, TRUE, TRUE, "bull")),
          EvalFeedOn("trend", Kind(100000, 5000, TRUE, TRUE, "bull")),   \* a swing low above close - ATR
          EvalFeedOn("trend", Kind(95000, 2000, TRUE, TRUE, "bull")),    \* a close below the swing lows
          EvalFeedOn("trend", Kind(0, 2000, TRUE, TRUE, "bull"))}        \* a close of 0

\* data_daily, data_4h = the next symbol's frames
Fetch ==
    /\ pc \in {"ret", "raised"}
    /\ \E m \in EvalFeeds : market' = m
    /\ prev_analysis' = analysis
    /\ analysis' = None
    /\ pc' = "call"
    /\ UNCHANGED <<initial_capital, i, capital, position, trades,
                   current_daily, current_4h, response>>

\* analysis = evaluate_pullback_strategy(symbol, data_daily, data_4h)
Evaluate ==
    /\ pc = "call"
    /\ analysis' = evaluate_pullback_strategy(data_daily, data_4h)
    /\ pc' = IF IsRaise(analysis') THEN "raised" ELSE "ret"
    /\ UNCHANGED <<market, initial_capital, i, capital, position, trades,
                   current_daily, current_4h, prev_analysis, response>>

InitEval ==
    /\ market \in EvalFeeds
    /\ initial_capital = DefaultCapital
    /\ i = 0
    /\ pc = "call"
    /\ capital = DefaultCapital
    /\ position = None
    /\ trades = <<>>
    /\ current_daily = <<>>
    /\ current_4h = <<>>
    /\ analysis = None
    /\ prev_analysis = None
    /\ response = None

NextEval == Fetch \/ Evaluate

SpecEval == InitEval /\ [][NextEval]_vars


----------------------------------------------------------------------------
(* detect_swing_points on its own: called on a short series of bars with   *)
(* a window.  In this specification market holds the call's arguments and  *)
(* response its result.                                                    *)

\* the series have at most this many bars
MaxBars == 5

\* the windows tried are 1..MaxWindow
MaxWindow == 2

\* the highs and the lows a bar of these series can have
BarShapes == {[High |-> h, Low |-> l] : h \in {2, 3}, l \in {0, 1}}

\* the frame of a sequence of bar shapes, indexed 0, 1, ...
SwingFrame(shapes) ==
    [k \in DOMAIN shapes |-> [time |-> k - 1, High |-> shapes[k].High, Low |-> shapes[k].Low]]

SwingInputs ==
    {[frame |-> SwingFrame(sh), window |-> w] :
        sh \in UNION {[1..n -> BarShapes] : n \in 0..MaxBars}, w \in 1..MaxWindow}

\* swing_points = detect_swing_points(data, window)
Detect ==
    /\ pc = "call"
    /\ response' = detect_swing_points(market.frame, market.window)
    /\ pc' = "ret"
    /\ UNCHANGED <<market, initial_capital, i, capital, position, trades,
                   current_daily, current_4h, analysis, prev_analysis>>

InitSwing ==
    /\ market \in SwingInputs
    /\ initial_capital = DefaultCapital
    /\ i = 0
    /\ pc = "call"
    /\ capital = DefaultCapital
    /\ position = None
    /\ trades = <<>>
    /\ current_daily = <<>>
    /\ current_4h = <<>>
    /\ analysis = None
    /\ prev_analysis = None
    /\ response = None

NextSwing == Detect

SpecSwing == InitSwing /\ [][NextSwing]_vars

----------------------------------------------------------------------------
(* detect_bullish_patterns on its own: called on a few candles.  In this   *)
(* specification market holds the call's argument and response its result. *)

\* the inputs have at most this many candles
MaxCandles == 3

Candle(o, h, l, c) == [Open |-> o, High |-> h, Low |-> l, Close |-> c]

Candles ==
    {Candle(60, 60, 40, 40),      \* red
     Candle(51, 51, 50, 50),      \* red, a narrow body
     Candle(30, 70, 30, 70),      \* green, engulfing either red
     Candle(50, 50, 50, 50),      \* a doji
     Candle(50, 60, 50, 60),      \* green
     Candle(60, 70, 30, 70),      \* a green hammer
     Candle(70, 70, 30, 60),      \* a red hammer
     Candle(49, 52, 40, 52)}      \* a green hammer engulfing the narrow red

PatternInputs ==
    {[frame |-> [k \in DOMAIN cs |-> [time |-> k - 1] @@ cs[k]]] :
        cs \in UNION {[1..n -> Candles] : n \in 0..MaxCandles}}

\* bullish_pattern = detect_bullish_patterns(data)
Match ==
    /\ pc = "call"
    /\ response' = detect_bullish_patterns(market.frame)
    /\ pc' = "ret"
    /\ UNCHANGED <<market, initial_capital, i, capital, position, trades,
                   current_daily, current_4h, analysis, prev_analysis>>

InitPattern ==
    /\ market \in PatternInputs
    /\ initial_capital = DefaultCapital
    /\ i = 0
    /\ pc = "call"
    /\ capital = DefaultCapital
    /\ position = None
    /\ trades = <<>>
    /\ current_daily = <<>>
    /\ current_4h = <<>>
    /\ analysis = None
    /\ prev_analysis = None
    /\ response = None

NextPattern == Match

SpecPattern == InitPattern /\ [][NextPattern]_vars

----------------------------------------------------------------------------
(* The indicator functions: calculate_enhanced_indicators of main222.py    *)
(* and calculate_indicators of main.py.  Each is a try block of column     *)
(* assignments; an assignment that reads a column the frame lacks raises   *)
(* KeyError, the except clause logs and returns data as it is by then.     *)

\* rolling(window=14, min_periods=1) of the RSI
RsiWindow == 14

\* the weights of an exponentially weighted mean count 1/EwmUnit
EwmUnit == 1000

Col(df, c) == [k \in DOMAIN df |-> df[k][c]]

RECURSIVE EwmWeight(_, _)
\* (1 - alpha)^k with alpha = 2 / (span + 1)
EwmWeight(span, k) ==
    IF k = 0 THEN EwmUnit ELSE RoundDiv(EwmWeight(span, k - 1) * (span - 1), span + 1)

\* xs.ewm(span=span, min_periods=1).mean() at bar t
EwmAt(xs, span, t) ==
    RoundDiv(SumSeq([k \in 1..t |-> EwmWeight(span, k - 1) * xs[t - k + 1]]),
             SumSeq([k \in 1..t |-> EwmWeight(span, k - 1)]))

\* the sum of the last w values up to t, fewer at the start of the series
RollingSum(xs, w, t) == SumSeq([k \in 1..Min(t, w) |-> xs[t - k + 1]])

\* xs.rolling(window=w, min_periods=1).mean() at bar t
RollingMeanAt(xs, w, t) == RoundDiv(RollingSum(xs, w, t), Min(t, w))

\* data['Close'].diff(): the first bar has no delta
Delta(close) == [t \in DOMAIN close |-> IF t = 1 THEN NaN ELSE close[t] - close[t - 1]]

\* delta.where(delta > 0, 0)
Gain(close) ==
    [t \in DOMAIN close |->
        IF Delta(close)[t] # NaN /\ Delta(close)[t] > 0 THEN Delta(close)[t] ELSE 0]

\* -delta.where(delta < 0, 0)
Loss(close) ==
    [t \in DOMAIN close |->
        IF Delta(close)[t] # NaN /\ Delta(close)[t] < 0 THEN -Delta(close)[t] ELSE 0]

\* 100 - 100 / (1 + rs) with rs = gain / loss, both means over the same window
RsiOf(g, l) == RoundDiv(100 * RsiUnit * g, g + l)

\* main222.py: rs = gain / loss, a float division: 0 / 0 is NaN and RSI is
\* NaN; gain / 0 is inf and RSI is 100 - 100 / inf = 100
RsiEnhanced(close) ==
    [t \in DOMAIN close |->
        LET g == RollingSum(Gain(close), RsiWindow, t)
            l == RollingSum(Loss(close), RsiWindow, t)
        IN  IF l = 0 THEN (IF g = 0 THEN NaN ELSE 100 * RsiUnit) ELSE RsiOf(g, l)]

\* main.py: rs = gain / loss.replace(0, np.nan), then fillna(50)
RsiSimple(close) ==
    [t \in DOMAIN close |->
        LET g == RollingSum(Gain(close), RsiWindow, t)
            l == RollingSum(Loss(close), RsiWindow, t)
        IN  IF l = 0 THEN 50 * RsiUnit ELSE RsiOf(g, l)]

\* the true range of bar t: the previous close is missing for the first bar
TrueRange(data, t) ==
    LET hl == data[t]["High"] - data[t]["Low"]
    IN  IF t = 1 THEN hl
        ELSE Max(hl, Max(Abs(data[t]["High"] - data[t - 1]["Close"]),
                         Abs(data[t]["Low"] - data[t - 1]["Close"])))

calculate_atr(data) ==
    [t \in DOMAIN data |-> RollingMeanAt([k \in DOMAIN data |-> TrueRange(data, k)], 14, t)]

\* data['MACD'] at bar t
MacdAt(close, t) == EwmAt(close, 12, t) - EwmAt(close, 26, t)

\* data['MACD_Signal'] at bar t
SignalAt(close, t) == EwmAt([k \in DOMAIN close |-> MacdAt(close, k)], 9, t)

\* the columns assigned from Close up to MACD_Signal, at bar t, with the RSI
\* column given
TrendCols(data, rsi, t) ==
    [EMA50 |-> EwmAt(Col(data, "Close"), 50, t),
     EMA200 |-> EwmAt(Col(data, "Close"), 200, t),
     RSI |-> rsi[t],
     MACD |-> MacdAt(Col(data, "Close"), t),
     MACD_Signal |-> SignalAt(Col(data, "Close"), t)]

HistogramCol(data, t) ==
    [MACD_Histogram |-> MacdAt(Col(data, "Close"), t) - SignalAt(Col(data, "Close"), t)]

VolumeMACol(data, t) == [Volume_MA |-> RollingMeanAt(Col(data, "Volume"), 20, t)]

VolumeSpikeCol(data, t) ==
    [Volume_Spike |-> 2 * data[t]["Volume"] > 3 * VolumeMACol(data, t).Volume_MA]

\* ATR, EMA50_Distance and Near_EMA50 at bar t; the distance counts 1/RsiUnit
\* of a percent
LevelCols(data, t) ==
    LET close == data[t]["Close"]
        dist == IF close = 0 THEN NaN
                ELSE RoundDiv(Abs(close - EwmAt(Col(data, "Close"), 50, t)) * 100 * RsiUnit,
                              close)
    IN  [ATR |-> calculate_atr(data)[t],
         EMA50_Distance |-> dist,
         Near_EMA50 |-> dist # NaN /\ dist < 2 * RsiUnit]

\* the result and whether the except clause has logged an error
Returned(data, failed) == [value |-> data, logged |-> failed]

\* an assignment replaces a column the frame already has
calculate_enhanced_indicators(data) ==
    LET rsi == RsiEnhanced(Col(data, "Close"))
    IN  IF ~HasCol(data, "Close") THEN Returned(data, TRUE)
        ELSE IF ~HasCol(data, "Volume")
            THEN Returned([t \in DOMAIN data |->
                              HistogramCol(data, t) @@ TrendCols(data, rsi, t) @@ data[t]],
                          TRUE)
        ELSE IF ~HasCols(data, {"High", "Low"})
            THEN Returned([t \in DOMAIN data |->
                              VolumeSpikeCol(data, t) @@ VolumeMACol(data, t)
                                @@ HistogramCol(data, t) @@ TrendCols(data, rsi, t)
                                @@ data[t]],
                          TRUE)
        ELSE Returned([t \in DOMAIN data |->
                          LevelCols(data, t) @@ VolumeSpikeCol(data, t)
                            @@ VolumeMACol(data, t) @@ HistogramCol(data, t)
                            @@ TrendCols(data, rsi, t) @@ data[t]],
                      FALSE)

calculate_indicators(data) ==
    LET rsi == RsiSimple(Col(data, "Close"))
    IN  IF ~HasCol(data, "Close") THEN Returned(data, TRUE)
        ELSE IF ~HasCol(data, "Volume")
            THEN Returned([t \in DOMAIN data |-> TrendCols(data, rsi, t) @@ data[t]], TRUE)
        ELSE Returned([t \in DOMAIN data |->
                          VolumeMACol(data, t) @@ TrendCols(data, rsi, t) @@ data[t]],
                      FALSE)

\* the exhaustive inputs have at most this many bars
MaxSeries == 3

\* the scripted inputs have this many bars, more than the RSI window
LongSeries == 16

ClosePrices == {1000, 1010, 1020}

\* the frames get_stock_data returns have all of RawCols; a frame from
\* elsewhere may lack some
ColumnSets ==
    {RawCols, RawCols \ {"Volume"}, RawCols \ {"High"}, RawCols \ {"Close"}}

SeriesFrame(closes, cols) ==
    [k \in DOMAIN closes |->
        [c \in cols |->
            CASE c = "time" -> k - 1
              [] c = "Open" -> closes[k]
              [] c = "High" -> closes[k] + 10
              [] c = "Low" -> closes[k] - 10
              [] c = "Close" -> closes[k]
              [] c = "Volume" -> 1000 + 400 * (k % 3)]]

\* one fall, then a rise on every bar: the fall leaves the RSI window at bar 16
RisingAfterFall == [k \in 1..LongSeries |-> IF k = 1 THEN 1010 ELSE 980 + 10 * k]

\* a rise on every bar but one near the end
FallAtTheEnd == [k \in 1..LongSeries |-> IF k < LongSeries - 1 THEN 990 + 10 * k ELSE 1100]

IndicatorInputs ==
    {[frame |-> SeriesFrame(cs, cols), given |-> SeriesFrame(cs, cols)] :
        cs \in UNION {[1..n -> ClosePrices] : n \in 1..MaxSeries}
               \cup {RisingAfterFall, FallAtTheEnd},
        cols \in ColumnSets}

\* data = calculate_enhanced_indicators(data): the function works on a copy,
\* the caller's frame stays as given
Enhanced ==
    /\ pc = "call"
    /\ response' = calculate_enhanced_indicators(market.frame)
    /\ pc' = "enhanced"
    /\ UNCHANGED <<market, initial_capital, i, capital, position, trades,
                   current_daily, current_4h, analysis, prev_analysis>>

\* df = calculate_indicators(df): the function assigns into the caller's frame
Simple ==
    /\ pc = "call"
    /\ response' = calculate_indicators(market.frame)
    /\ market' = [market EXCEPT !.frame = response'.value]
    /\ pc' = "simple"
    /\ UNCHANGED <<initial_capital, i, capital, position, trades,
                   current_daily, current_4h, analysis, prev_analysis>>

InitInd ==
    /\ market \in IndicatorInputs
    /\ initial_capital = DefaultCapital
    /\ i = 0
    /\ pc = "call"
    /\ capital = DefaultCapital
    /\ position = None
    /\ trades = <<>>
    /\ current_daily = <<>>
    /\ current_4h = <<>>
    /\ analysis = None
    /\ prev_analysis = None
    /\ response = None

NextInd == Enhanced \/ Simple

SpecInd == InitInd /\ [][NextInd]_vars

----------------------------------------------------------------------------
(* The properties                                                          *)

\* floor(n / d), d # 0
FloorDiv(n, d) == IF d > 0 THEN n \div d ELSE (0 - n) \div (0 - d)

\* the number of true criteria, counted one by one
Tally(cr) ==
    (IF cr[1] THEN 1 ELSE 0) + (IF cr[2] THEN 1 ELSE 0) + (IF cr[3] THEN 1 ELSE 0)
        + (IF cr[4] THEN 1 ELSE 0) + (IF cr[5] THEN 1 ELSE 0) + (IF cr[6] THEN 1 ELSE 0)

\* b is a with one criterion flipped from false to true, the others fixed
OneMore(a, b) ==
    \E k \in 1..6 : ~a[k] /\ b[k] /\ \A j \in (1..6) \ {k} : a[j] = b[j]

\* the close and the timestamp of the daily bar the loop is at
CloseAt == data_daily[i + 1]["Close"]

TimeAt == data_daily[i + 1]["time"]

\* the ledger grew by one record, with this exit reason
Closed(reason) ==
    /\ Len(trades') = Len(trades) + 1
    /\ SubSeq(trades', 1, Len(trades)) = trades
    /\ trades'[Len(trades')].exit_reason = reason
    /\ position' = None

\* C1: a backtest run has no position or one: the position changes only from
\* none to one, the ledger untouched, or from one to none, with exactly one
\* record appended; and the ledger grows only when a position is closed.
C1_ZeroOrOnePosition ==
    [][/\ position' # position =>
            \/ position = None /\ position' # None /\ trades' = trades
            \/ position # None /\ position' = None /\ Len(trades') = Len(trades) + 1
       /\ trades' # trades => position # None /\ position' = None]_vars

\* a position opened again after an earlier one was closed
C1_Reopened == position # None /\ Len(trades) >= 1

\* C2: at a step taken with a position open, a close at or below the stop closes
\* it with a STOP_LOSS record, otherwise a close at or above the target closes
\* it with a TARGET_HIT record (the stop first when both hold); either way
\* (close - entry) * shares is added to the capital and no position is left.
C2_ExitRule ==
    [][(position # None /\ i' # i) =>
            LET gain == (CloseAt - position.entry_price) * position.shares
            IN  IF CloseAt <= position.stop_loss
                    THEN Closed("STOP_LOSS") /\ capital' = capital + gain
                ELSE IF CloseAt >= position.target
                    THEN Closed("TARGET_HIT") /\ capital' = capital + gain
                ELSE TRUE]_vars

\* a STOP_LOSS record above its entry price: the stop was above the entry, and
\* the target below it, so the close was at once below the stop and above the target
C2_BothHit ==
    /\ Len(trades) >= 2
    /\ trades[2].exit_reason = "STOP_LOSS"
    /\ trades[2].exit_price > trades[2].entry_price

\* C3: at a step evaluated with no position open, a BUY or STRONG_BUY opens a
\* position exactly when floor(capital * 0.02 / (entry - stop)) > 0, on the
\* current capital, with that share count and the setup's entry, stop and
\* target_1; any other signal opens none.  And with capital 10000, entry 100,
\* stop 98 and target 104, a close of 104 gives a TARGET_HIT record of 100
\* shares and pnl 400, and capital 10400.
C3_EntryRule ==
    [][/\ (position = None /\ i' # i /\ Len(current_4h') >= MinIntraday) =>
            IF analysis'.signal \in {"BUY", "STRONG_BUY"}
            THEN LET setup == analysis'.trade_setup
                     shares == FloorDiv(2 * capital, 100 * (setup.entry_price - setup.stop_loss))
                 IN  /\ position' # None <=> shares > 0
                     /\ position' # None =>
                            /\ position'.shares = shares
                            /\ position'.entry_price = setup.entry_price
                            /\ position'.stop_loss = setup.stop_loss
                            /\ position'.target = setup.target_1
            ELSE position' = None
       /\ (/\ position # None /\ i' # i
           /\ capital = 10000000 /\ position.entry_price = 100000
           /\ position.stop_loss = 98000 /\ position.target = 104000
           /\ CloseAt = 104000) =>
            /\ position.shares = 100
            /\ Closed("TARGET_HIT")
            /\ trades'[Len(trades')].shares = 100
            /\ trades'[Len(trades')].pnl = 400000
            /\ capital' = 10400000]_vars

\* the scenario's run, finished: one trade, 100 shares, pnl 400, capital 10400
C3_Scenario ==
    /\ pc = "done" /\ initial_capital = 10000000
    /\ Len(trades) = 1
    /\ trades[1].exit_reason = "TARGET_HIT" /\ trades[1].shares = 100
    /\ trades[1].entry_price = 100000 /\ trades[1].exit_price = 104000
    /\ trades[1].pnl = 400000
    /\ capital = 10400000 /\ response.metrics.final_capital = 10400000

\* C4: a BUY or STRONG_BUY with no position open and entry_price <= stop_loss
\* opens no position, leaves the capital and the ledger as they are, and the
\* loop goes on to the next step.
C4_NoEntryWithoutRisk ==
    [][(/\ InLoop /\ position = None /\ Len(current_4h') >= MinIntraday
        /\ analysis' # None /\ analysis'.signal \in {"BUY", "STRONG_BUY"}
        /\ analysis'.trade_setup.entry_price <= analysis'.trade_setup.stop_loss) =>
            /\ position' = None /\ capital' = capital /\ trades' = trades
            /\ pc' = "loop" /\ i' = i + Stride]_vars

\* C5: every record's exit_date is after its entry_date, and a position that
\* is open when a step begins was opened at an earlier day.
C5_ExitAfterEntry ==
    /\ \A k \in DOMAIN trades : trades[k].exit_date > trades[k].entry_date
    /\ (InLoop /\ position # None) => position.entry_date < Today

\* two round trips are in the ledger
C5_TwoTrades == Len(trades) >= 2

\* C6, as stated: the sign of every record's pnl is the sign of exit_price - entry_price.
C6_SignMatches ==
    \A k \in DOMAIN trades :
        Sign(trades[k].pnl) = Sign(trades[k].exit_price - trades[k].entry_price)

\* C6, amended: a record's pnl, which is rounded to cents, never has the sign
\* opposite to exit_price - entry_price, and is 0 when the two prices are
\* equal; it is 0 otherwise only when the move times the shares is at most
\* half a cent.
C6_SignNeverOpposite ==
    \A k \in DOMAIN trades :
        LET move == trades[k].exit_price - trades[k].entry_price
        IN  /\ trades[k].pnl > 0 => move > 0
            /\ trades[k].pnl < 0 => move < 0
            /\ move = 0 => trades[k].pnl = 0
            /\ trades[k].pnl = 0 => 2 * Abs(move) * trades[k].shares <= Cent

\* a record whose prices differ and whose pnl is 0.00
C6_RoundedAway ==
    \E k \in DOMAIN trades :
        trades[k].pnl = 0 /\ trades[k].exit_price # trades[k].entry_price

\* C7: the loop index goes 50, 55, ... below len(daily) - 10 and only forward;
\* the slices of a step are the daily bars 0..i and the intraday bars stamped
\* at or before daily bar i, the evaluation is of these slices and an exit is
\* at bar i's close and date; a step with fewer than 10 intraday bars leaves
\* capital, position and ledger as they are.
C7_NoLookAhead ==
    [][i' # i =>
        /\ i >= WarmUp /\ (i - WarmUp) % Stride = 0
        /\ i < Len(data_daily) - TailSkip
        /\ i' = i + Stride
        /\ LET seen_daily == [k \in 1..(i + 1) |-> data_daily[k]]
               seen_4h == SelectSeq(data_4h, LAMBDA r : r["time"] <= TimeAt)
           IN  /\ current_daily' = [k \in 1..(i + 1) |-> data_daily[k]["time"]]
               /\ current_4h' = [k \in DOMAIN seen_4h |-> seen_4h[k]["time"]]
               /\ IF Len(seen_4h) < MinIntraday
                  THEN UNCHANGED <<capital, position, trades, analysis, pc, response>>
                  ELSE analysis' = evaluate_pullback_strategy(seen_daily, seen_4h)
        /\ trades' # trades =>
            /\ trades'[Len(trades')].exit_price = CloseAt
            /\ trades'[Len(trades')].exit_date = DateStr(TimeAt)]_vars

\* a step skipped for want of intraday bars, and the next one evaluated
C7_SkippedThenEvaluated ==
    /\ market.start = LateStart
    /\ i = WarmUp + 2 * Stride
    /\ Len(current_4h) >= MinIntraday
    /\ analysis # None

\* C8: the metrics are of the whole ledger: total_trades is its length and the
\* sum of winning_trades (pnl > 0) and losing_trades (pnl <= 0); the trades
\* returned are the last min(10, n) records in order; an empty ledger gives
\* total_trades 0 and a message.
C8_Metrics ==
    pc = "done" =>
        LET n == Len(trades)
            m == response.metrics
        IN  /\ IF n = 0
               THEN m.total_trades = 0 /\ "message" \in DOMAIN m
               ELSE /\ m.total_trades = n
                    /\ m.total_trades = m.winning_trades + m.losing_trades
                    /\ m.winning_trades = Cardinality({k \in 1..n : trades[k].pnl > 0})
                    /\ m.losing_trades = Cardinality({k \in 1..n : ~(trades[k].pnl > 0)})
            /\ Len(response.trades) = Min(ReportLimit, n)
            /\ \A k \in 1..Min(ReportLimit, n) :
                    response.trades[k] = trades[n - Min(ReportLimit, n) + k]

\* a finished run with more than 10 trades, winners and losers among them
C8_LongLedger ==
    /\ pc = "done" /\ Len(trades) > ReportLimit
    /\ response.metrics.winning_trades > 0 /\ response.metrics.losing_trades > 0

\* C9: criteria_met is the number of true criteria; 5 or 6 give STRONG_BUY and
\* 90, 4 gives BUY and 75, 3 gives WEAK_BUY and 60, fewer give HOLD and 40; and
\* of two results that differ in one criterion, the one that has it true has
\* neither the smaller criteria_met nor the smaller confidence.
C9_Classification ==
    (pc = "ret" /\ analysis.signal # "ERROR") =>
        LET n == Tally(analysis.criteria)
        IN  /\ analysis.criteria_met = n
            /\ n >= 5 => analysis.signal = "STRONG_BUY" /\ analysis.confidence = 90
            /\ n = 4 => analysis.signal = "BUY" /\ analysis.confidence = 75
            /\ n = 3 => analysis.signal = "WEAK_BUY" /\ analysis.confidence = 60
            /\ n <= 2 => analysis.signal = "HOLD" /\ analysis.confidence = 40
            /\ (/\ prev_analysis # None /\ prev_analysis.signal # "ERROR"
                /\ OneMore(prev_analysis.criteria, analysis.criteria)) =>
                    /\ analysis.criteria_met >= prev_analysis.criteria_met
                    /\ analysis.confidence >= prev_analysis.confidence

\* two results one criterion apart, on the two sides of a threshold
C9_OneMoreCriterion ==
    /\ pc = "ret" /\ analysis.signal = "STRONG_BUY"
    /\ prev_analysis # None /\ prev_analysis.signal = "BUY"
    /\ OneMore(prev_analysis.criteria, analysis.criteria)

\* C10: evaluate_pullback_strategy never raises: on frames on which its
\* computation fails it returns signal ERROR, confidence 0 and the error's
\* description.
C10_NeverRaises ==
    /\ pc # "raised"
    /\ (pc = "ret" /\ EvaluateRaises(data_daily, data_4h) # NoException) =>
            /\ analysis.signal = "ERROR"
            /\ analysis.confidence = 0
            /\ "error" \in DOMAIN analysis
            /\ analysis.error = EvaluateRaises(data_daily, data_4h)

\* a symbol evaluated after one whose evaluation failed
C10_PastTheFailure ==
    /\ pc = "ret" /\ analysis.signal # "ERROR"
    /\ prev_analysis # None /\ prev_analysis.signal = "ERROR"
    /\ "error" \in DOMAIN prev_analysis

\* C16: at a step taken with a position open and the close strictly between
\* its stop and its target, the position, the capital and the ledger stay as
\* they are, whatever the evaluator's signal at that step.
C16_HoldFrame ==
    [][(/\ position # None /\ i' # i
        /\ position.stop_loss < CloseAt /\ CloseAt < position.target) =>
            UNCHANGED <<position, capital, trades>>]_vars

\* a position held through a step whose signal was a fresh BUY or STRONG_BUY
C16_HeldThroughBuy ==
    /\ position # None /\ analysis # None
    /\ analysis.signal \in {"BUY", "STRONG_BUY"}
    /\ current_daily # <<>>
    /\ position.entry_date < DateStr(current_daily[Len(current_daily)])

\* C17, as stated: every STOP_LOSS record has pnl < 0 and every TARGET_HIT
\* record pnl > 0, and every open position has stop_loss < entry_price < target.
C17_ExitSigns ==
    /\ \A k \in DOMAIN trades :
            /\ trades[k].exit_reason = "STOP_LOSS" => trades[k].pnl < 0
            /\ trades[k].exit_reason = "TARGET_HIT" => trades[k].pnl > 0
    /\ position # None =>
            position.stop_loss < position.entry_price /\ position.entry_price < position.target

\* the capital has gone below zero and a position is opened on it, its stop
\* above its entry price
C17_NegativeCapitalEntry ==
    /\ capital < 0 /\ position # None
    /\ position.entry_price < position.stop_loss

\* the sum of (exit_price - entry_price) * shares over a ledger, unrounded
RECURSIVE MoveSum(_)
MoveSum(trs) ==
    IF trs = <<>> THEN 0
    ELSE (trs[Len(trs)].exit_price - trs[Len(trs)].entry_price) * trs[Len(trs)].shares
            + MoveSum(SubSeq(trs, 1, Len(trs) - 1))

\* C18, as stated: final_capital = initial_capital + total_return
C18_FinalIsInitialPlusReturn ==
    (pc = "done" /\ trades # <<>>) =>
        response.metrics.final_capital = initial_capital + response.metrics.total_return

\* C18, amended: the capital changes only at an exit, by the unrounded pnl of
\* the record appended; final_capital is the initial capital plus the
\* unrounded pnl of the ledger, rounded to cents, and is within half a cent
\* per record, and half a cent more, of initial_capital + total_return, which
\* sums the rounded pnl; a position open at the end adds no record and the
\* metrics are of the ledger alone.
C18_CapitalAccounting ==
    [][/\ capital' # capital =>
            /\ position # None /\ position' = None
            /\ Len(trades') = Len(trades) + 1
            /\ capital' = capital + (CloseAt - position.entry_price) * position.shares
       /\ pc' = "done" =>
            /\ capital' = initial_capital + MoveSum(trades')
            /\ trades' = trades
            /\ trades' # <<>> =>
                /\ response'.metrics.final_capital = Round2(capital')
                /\ response'.metrics.total_return = SumSeq([k \in DOMAIN trades' |-> trades'[k].pnl])
                /\ response'.metrics.total_trades = Len(trades')
                /\ 2 * Abs(response'.metrics.final_capital
                            - (initial_capital + response'.metrics.total_return))
                        <= Cent * (Len(trades') + 1)]_vars

\* a finished run whose final_capital is a cent away from initial_capital + total_return
C18_OffByACent ==
    /\ pc = "done" /\ trades # <<>>
    /\ response.metrics.final_capital # initial_capital + response.metrics.total_return

\* the rows (1-based) of the last 50 daily bars that are swing lows: a row with
\* SwingWindow rows on either side whose Low is the least of these rows' Lows
SwingLowRows(df) ==
    {k \in 1..Len(df) :
        /\ k > SwingWindow /\ k <= Len(df) - SwingWindow
        /\ \A j \in (k - SwingWindow)..(k + SwingWindow) : df[j]["Low"] >= df[k]["Low"]}

\* the last 3 of a set of rows
LastThree(rows) == {k \in rows : Cardinality({j \in rows : j > k}) < 3}

\* the stop, in 1/Fine mills: max(lowest of the last 3 swing lows, or
\* 0.95 * close without any, close - ATR)
StopOf(daily) ==
    LET last50 == SubSeq(daily, Max(1, Len(daily) - 49), Len(daily))
        close == daily[Len(daily)]["Close"]
        lows == {last50[k]["Low"] : k \in LastThree(SwingLowRows(last50))}
        m == IF lows = {} THEN 95 * close
             ELSE Fine * (CHOOSE x \in lows : \A y \in lows : x <= y)
    IN  Max(m, Fine * (close - daily[Len(daily)]["ATR"]))

\* x (mills, a whole number of cents) is v (1/Fine mills) rounded to 2 decimals
IsRounded(x, v) == x % Cent = 0 /\ 2 * Abs(Fine * x - v) <= Cent * Fine

\* C15, as stated: the setup's stop_loss is max(m, close - ATR), its target_1
\* is close + 2 * risk and its target_2 close + 3 * risk, with risk = close -
\* stop; criterion 5 is risk > 0 and criterion 6 is risk / close * 100 > 0.5.
C15_SetupIsExact ==
    (pc = "ret" /\ analysis.signal # "ERROR" /\ data_daily[Len(data_daily)]["Close"] > 0) =>
        LET close == Fine * data_daily[Len(data_daily)]["Close"]
            stop == StopOf(data_daily)
            risk == close - stop
        IN  /\ Fine * analysis.trade_setup.stop_loss = stop
            /\ Fine * analysis.trade_setup.target_1 = close + 2 * risk
            /\ Fine * analysis.trade_setup.target_2 = close + 3 * risk
            /\ analysis.criteria[5] <=> risk > 0
            /\ analysis.criteria[6] <=> 200 * risk > close

\* C15, amended: stop, risk and targets are derived as stated and criteria 5
\* and 6 are decided on them, criterion 6 being false when close <= 0; the
\* setup's entry_price, stop_loss, target_1, target_2 and risk_amount are
\* these values each rounded to 2 decimals.
C15_SetupIsRounded ==
    (pc = "ret" /\ analysis.signal # "ERROR") =>
        LET close == Fine * data_daily[Len(data_daily)]["Close"]
            stop == StopOf(data_daily)
            risk == close - stop
            setup == analysis.trade_setup
        IN  /\ IsRounded(setup.entry_price, close)
            /\ IsRounded(setup.stop_loss, stop)
            /\ IsRounded(setup.target_1, close + 2 * risk)
            /\ IsRounded(setup.target_2, close + 3 * risk)
            /\ IsRounded(setup.risk_amount, risk)
            /\ analysis.criteria[5] <=> risk > 0
            /\ analysis.criteria[6] <=> (close > 0 /\ 200 * risk > close)

\* a setup whose stop is a swing low and whose entry_price and target_1 are
\* the same cent although the risk is positive
C15_RoundedTogether ==
    /\ pc = "ret" /\ analysis.signal # "ERROR"
    /\ analysis.criteria[5]
    /\ Fine * analysis.trade_setup.stop_loss # StopOf(data_daily)
    /\ StopOf(data_daily) > Fine * (data_daily[Len(data_daily)]["Close"]
                                        - data_daily[Len(data_daily)]["ATR"])
    /\ analysis.trade_setup.target_1 = analysis.trade_setup.entry_price

\* the 0-based indices at which column c of df is extreme (sign 1: greatest,
\* sign -1: least) among the bars up to w away, w bars being on either side
ExtremeAt(df, c, w, sign) ==
    {k \in 0..(Len(df) - 1) :
        /\ w <= k /\ k < Len(df) - w
        /\ \A j \in (k - w)..(k + w) : sign * df[j + 1][c] <= sign * df[k + 1][c]}

\* points lists exactly the indices of at, in increasing order, with column
\* c's value and the index's timestamp
ListsExactly(points, at, df, c) ==
    /\ {points[j].index : j \in DOMAIN points} = at
    /\ Len(points) = Cardinality(at)
    /\ \A j \in DOMAIN points :
            /\ j > 1 => points[j - 1].index < points[j].index
            /\ points[j].price = df[points[j].index + 1][c]
            /\ points[j].time = df[points[j].index + 1]["time"]

\* C13: detect_swing_points with window w lists a high at i iff w <= i < len - w
\* and High[i] is the maximum of High over [i-w, i+w], every index of a tie
\* included, and a low likewise for the minimum of Low; both lists are in
\* increasing index order, and both are empty under 2w + 1 bars.
C13_SwingPoints ==
    pc = "ret" =>
        /\ ListsExactly(response.highs, ExtremeAt(market.frame, "High", market.window, 1),
                        market.frame, "High")
        /\ ListsExactly(response.lows, ExtremeAt(market.frame, "Low", market.window, -1),
                        market.frame, "Low")
        /\ Len(market.frame) < 2 * market.window + 1 =>
                response.highs = <<>> /\ response.lows = <<>>

\* two highs listed that tie for the maximum of one window, and one low
C13_TieListed ==
    /\ pc = "ret" /\ Len(response.highs) = 2
    /\ response.highs[2].index - response.highs[1].index <= market.window
    /\ response.highs[1].price = response.highs[2].price
    /\ Len(response.lows) = 1

\* the four rules, on the last candle c, the one before it p and the one before that q
IsHammer(c) ==
    /\ Min(c.Open, c.Close) - c.Low > 2 * Abs(c.Close - c.Open)
    /\ c.High - Max(c.Open, c.Close) < Abs(c.Close - c.Open)

IsGreen(c) == c.Close > c.Open

IsEngulfing(p, c) == p.Close < p.Open /\ IsGreen(c) /\ c.Open < p.Close /\ c.Close > p.Open

IsMorningStar(q, p, c) ==
    /\ q.Close < q.Open
    /\ 10 * Abs(p.Close - p.Open) < 3 * Abs(c.Close - c.Open)
    /\ IsGreen(c)
    /\ 2 * c.Close > q.Open + q.Close

\* C14: on 3 bars or more detect_bullish_patterns returns the result of the
\* first rule that matches, in the order HAMMER (75), BULLISH_ENGULFING (85),
\* MORNING_STAR (90), BULLISH_CANDLE (60), and NONE (0) when none does; on
\* fewer than 3 bars it returns NONE (0).
C14_FirstRuleWins ==
    pc = "ret" =>
        LET n == Len(market.frame)
            r == response
        IN  IF n < 3 THEN r = [pattern |-> "NONE", confidence |-> 0]
            ELSE LET c == market.frame[n]
                     p == market.frame[n - 1]
                     q == market.frame[n - 2]
                     hammer == IsHammer(c)
                     engulfing == ~hammer /\ IsEngulfing(p, c)
                     star == ~hammer /\ ~engulfing /\ IsMorningStar(q, p, c)
                     green == ~hammer /\ ~engulfing /\ ~star /\ IsGreen(c)
                 IN  /\ r.pattern = "HAMMER" <=> hammer
                     /\ r.pattern = "BULLISH_ENGULFING" <=> engulfing
                     /\ r.pattern = "MORNING_STAR" <=> star
                     /\ r.pattern = "BULLISH_CANDLE" <=> green
                     /\ r.pattern = "NONE" <=> ~(hammer \/ engulfing \/ star \/ green)
                     /\ r.pattern \in {"HAMMER", "BULLISH_ENGULFING", "MORNING_STAR",
                                       "BULLISH_CANDLE", "NONE"}
                     /\ r.confidence = CASE r.pattern = "HAMMER" -> 75
                                         [] r.pattern = "BULLISH_ENGULFING" -> 85
                                         [] r.pattern = "MORNING_STAR" -> 90
                                         [] r.pattern = "BULLISH_CANDLE" -> 60
                                         [] OTHER -> 0

\* a last candle that is a hammer, green and engulfing at once, returned as HAMMER
C14_HammerOverLower ==
    /\ pc = "ret" /\ Len(market.frame) >= 3
    /\ IsHammer(market.frame[Len(market.frame)])
    /\ IsGreen(market.frame[Len(market.frame)])
    /\ IsEngulfing(market.frame[Len(market.frame) - 1], market.frame[Len(market.frame)])
    /\ response.pattern = "HAMMER"

\* one of the two indicator functions has returned
Indicated == pc \in {"enhanced", "simple"}

\* C11: the indicator functions return a frame as long as the one given, and
\* after a failure of any step the frame returned is the one given, without
\* any indicator column.
C11_OriginalOnFailure ==
    Indicated =>
        /\ Len(response.value) = Len(market.given)
        /\ response.logged => response.value = market.given

\* calculate_enhanced_indicators has failed at Volume_MA and returned a frame
\* with the columns assigned before it
C11_PartialIndicators ==
    /\ pc = "enhanced"
    /\ response.logged
    /\ HasCols(response.value, {"EMA50", "EMA200", "RSI", "MACD", "MACD_Signal",
                                "MACD_Histogram"})
    /\ ~HasCol(response.value, "Volume_MA")
    /\ ~HasCol(market.given, "EMA50")

\* no close of the RSI window ending at bar t is below the close before it
NoLossUpTo(close, t) ==
    \A k \in 2..t : (k > t - RsiWindow /\ k <= t) => close[k] >= close[k - 1]

\* C12: on every bar the RSI is a number between 0 and 100, and it is 50 when
\* the average loss of its window is zero.
C12_RsiDefined ==
    (Indicated /\ HasCol(response.value, "RSI")) =>
        \A t \in DOMAIN response.value :
            LET rsi == response.value[t]["RSI"]
            IN  /\ rsi # NaN
                /\ rsi >= 0
                /\ rsi <= 100 * RsiUnit
                /\ NoLossUpTo(Col(market.given, "Close"), t) => rsi = 50 * RsiUnit

\* calculate_enhanced_indicators on a series longer than the RSI window: the
\* RSI of the first bar is NaN and that of a window of rises is 100
C12_NaNThenHundred ==
    /\ pc = "enhanced"
    /\ Len(response.value) = LongSeries
    /\ HasCol(response.value, "RSI")
    /\ response.value[1]["RSI"] = NaN
    /\ NoLossUpTo(Col(market.given, "Close"), LongSeries)
    /\ ~NoLossUpTo(Col(market.given, "Close"), LongSeries - 1)
    /\ response.value[LongSeries]["RSI"] = 100 * RsiUnit

============================================================================
